---- MODULE Spec2Model ----
(***************************************************************************)
(* filename: the path of an open file handle.                              *)
(*                                                                         *)
(* One build holds exactly one backend (linux/android, macos/ios,          *)
(* windows).  A call of file_name is followed through three positions:     *)
(* the call (the scratch buffer is allocated), the single OS query, and    *)
(* the construction of the io::Result<PathBuf> that is returned.           *)
(* The operating system is the environment: a table of open handles, the   *)
(* name the kernel keeps for each of them, and the three query primitives  *)
(* the backends call.                                                      *)
(***************************************************************************)
EXTENDS Integers, Sequences, FiniteSets, TLC

VARIABLES
    backend,    \* the backend compiled into this build (cfg, lib.rs:45,57,81)
    cwdDrive,   \* windows: drive of the current directory (C)
    open,       \* the caller's handles: handle value -> open file or Closed
    pc,         \* position of the call: "idle", "called", "queried"
    arg,        \* raw handle of the running call (as_raw_fd / as_raw_handle)
    buf,        \* scratch buffer of the running call
    ret,        \* return value of the OS query
    oserr,      \* the thread's errno / GetLastError value
    nq,         \* OS queries issued by the running call
    readHi,     \* number of leading buffer bytes the last call has read
    result,     \* io::Result<PathBuf> returned by the last call
    prev,       \* the call before it: its handle and its result
    last        \* what the OS did in the last call's query

vars == <<backend, cwdDrive, open, pc, arg, buf, ret, oserr, nq, readHi,
          result, prev, last>>

-----------------------------------------------------------------------------
(* Bounds of the model *)

\* OS queries one call may issue before the model stops counting
MaxQueries == 2

\* number of handle slots the caller may hold open at once
NSlots == 1

\* value of the lowest handle slot (a descriptor that prints with two digits)
FdBase == 10

\* by how many bytes / UTF-16 units the longest created path outgrows the
\* scratch buffer of the backend
LongExtra == 1

-----------------------------------------------------------------------------
(* Program constants *)

MAXPATHLEN == 1024

WinBufLen == 4096

\* offset of FILE_NAME_INFO.FileName: it follows the DWORD FileNameLength
FileNameOffset == 4

\* mem::size_of::<WCHAR>()
SizeOfWCHAR == 2

\* OS error codes the primitives report
ENOENT == 2
EBADF == 9
ENOSPC == 28
ERROR_INVALID_HANDLE == 6
ERROR_MORE_DATA == 234

Backends == {"linux", "macos", "windows"}

Slots == FdBase .. (FdBase + NSlots - 1)

\* -1 is never an open handle (INVALID_HANDLE_VALUE, a failed open)
HandleVals == {-1} \cup Slots

Closed == [P |-> <<>>, name |-> <<>>, drive |-> 0, moved |-> FALSE,
           unlinked |-> FALSE, isopen |-> FALSE]

-----------------------------------------------------------------------------
(* Sequences of bytes and of UTF-16 units *)

Rep(x, n) == [i \in 1..n |-> x]

Zeros(n) == Rep(0, n)

Min(a, b) == IF a < b THEN a ELSE b

IsPrefix(p, s) == Len(p) <= Len(s) /\ SubSeq(s, 1, Len(p)) = p

IsSuffix(p, s) == Len(p) <= Len(s) /\ SubSeq(s, Len(s) - Len(p) + 1, Len(s)) = p

Drop(s, n) == SubSeq(s, n + 1, Len(s))

\* "/proc/self/fd/"
ProcPrefix == <<47, 112, 114, 111, 99, 47, 115, 101, 108, 102, 47, 102, 100, 47>>

\* " (deleted)"
DeletedSuffix == <<32, 40, 100, 101, 108, 101, 116, 101, 100, 41>>

\* "/d/", the directory of the files, and "/l/", a symbolic link to it
DirD == <<47, 100, 47>>
LinkL == <<47, 108, 47>>

\* windows: "\d\" and the verbatim prefix "\\?\" that canonicalize yields
WinDir == <<92, 100, 92>>
VerbatimPrefix == <<92, 92, 63, 92>>

\* drive letters C and D
Drives == {67, 68}

RECURSIVE Digits(_)
Digits(n) == IF n < 10 THEN <<48 + n>> ELSE Digits(n \div 10) \o <<48 + (n % 10)>>

\* format!("{}", i32)
ToDecimal(n) == IF n < 0 THEN <<45>> \o Digits(-n) ELSE Digits(n)

\* format!("/proc/self/fd/{}", self.as_raw_fd())
ProcPath(fd) == ProcPrefix \o ToDecimal(fd)

IsDigit(c) == c >= 48 /\ c <= 57

RECURSIVE DecValue(_)
DecValue(s) == IF s = <<>> THEN 0
               ELSE 10 * DecValue(SubSeq(s, 1, Len(s) - 1)) + (s[Len(s)] - 48)

\* procfs: the directory entry a decimal name denotes; -1 when the name is
\* no canonical decimal number
ParseFd(s) ==
    IF s # <<>> /\ (\A i \in 1..Len(s) : IsDigit(s[i])) /\ (Len(s) = 1 \/ s[1] # 48)
    THEN DecValue(s) ELSE -1

-----------------------------------------------------------------------------
(* Paths of the files the caller creates *)

\* a path of n bytes (units) in the directory /d (\d)
LongName(dir, n) == dir \o Rep(97, n - Len(dir))

\* longest names the scratch buffers hold: 1023 bytes and the terminator,
\* (4096 - 4) / 2 UTF-16 units
MacFit == MAXPATHLEN - 1
WinFit == (WinBufLen - FileNameOffset) \div SizeOfWCHAR

\* the long path is the longest the macos buffer holds; linux has no such
\* limit and gets a longer one (open(2) on macos takes no path of
\* MAXPATHLEN bytes or more)
PosixPaths(b) ==
    { DirD \o <<102>>, LinkL \o <<102>>,
      LongName(DirD, IF b = "linux" THEN MacFit + LongExtra ELSE MacFit) }

\* volume-relative names; 20013 is a unit above 255
WinNames == { WinDir \o <<20013>>,
              LongName(WinDir, WinFit), LongName(WinDir, WinFit + LongExtra) }

WinPath(drive, name) == <<drive, 58>> \o name

\* the long names lie on drive C
CreatePaths(b) ==
    IF b = "windows"
    THEN { WinPath(d, WinDir \o <<20013>>) : d \in Drives }
         \cup { WinPath(67, n) : n \in WinNames }
    ELSE PosixPaths(b)

\* the path a rename moves a file to
RenameTarget(b) == IF b = "windows" THEN WinDir \o <<103>> ELSE DirD \o <<103>>

HasDrive(q) == Len(q) >= 2 /\ q[2] = 58

\* the path with its symbolic links and its drive resolved
Resolve(b, cwd, q) ==
    IF b = "windows" THEN (IF HasDrive(q) THEN q ELSE WinPath(cwd, q))
    ELSE IF IsPrefix(LinkL, q) THEN DirD \o Drop(q, Len(LinkL)) ELSE q

\* the absolute name of an open file
FullName(b, f) == IF b = "windows" THEN WinPath(f.drive, f.name) ELSE f.name

Exists(b, tab, full) ==
    \E h \in DOMAIN tab :
        tab[h].isopen /\ ~tab[h].unlinked /\ FullName(b, tab[h]) = full

\* Path::canonicalize: fails on a path that does not exist
canonicalize(b, cwd, tab, q) ==
    LET full == Resolve(b, cwd, q) IN
    IF Exists(b, tab, full)
    THEN [ok |-> TRUE,
          path |-> IF b = "windows" THEN VerbatimPrefix \o full ELSE full]
    ELSE [ok |-> FALSE, path |-> <<>>]

\* NamedTempFile::new(): a new file at path P
NewFile(b, cwd, P) ==
    LET full == Resolve(b, cwd, P) IN
    [P |-> P,
     name |-> IF b = "windows" THEN Drop(full, 2) ELSE full,
     drive |-> IF b = "windows" THEN full[1] ELSE 0,
     moved |-> FALSE, unlinked |-> FALSE, isopen |-> TRUE]

-----------------------------------------------------------------------------
(* The three OS primitives.  Each yields the return value, the value of     *)
(* errno / GetLastError after it, and the bytes it leaves in the buffer.    *)

\* data written to the front of buffer b, as far as b reaches
WriteAt(b, data) ==
    LET old == b
        new == data IN
    [i \in 1..Len(old) |-> IF i <= Len(new) THEN new[i] ELSE old[i]]

LE32(n) == <<n % 256, (n \div 256) % 256, (n \div 65536) % 256,
             (n \div 16777216) % 256>>

\* UTF-16 units as little-endian bytes
UnitsToBytes(u) ==
    LET units == u IN
    [i \in 1..(2 * Len(units)) |->
        IF i % 2 = 1 THEN units[(i + 1) \div 2] % 256 ELSE units[i \div 2] \div 256]

IsOpen(tab, h) == h \in DOMAIN tab /\ tab[h].isopen

\* the name the kernel reports for an open file: procfs marks an unlinked
\* file, the other two report the name the file had
KernelName(b, f) ==
    f.name \o (IF b = "linux" /\ f.unlinked THEN DeletedSuffix ELSE <<>>)

\* readlink(2) on procfs: the kernel marks the name of an unlinked file
readlink(tab, path, e) ==
    LET fd == IF IsPrefix(ProcPrefix, path)
              THEN ParseFd(Drop(path, Len(ProcPrefix))) ELSE -1 IN
    IF IsOpen(tab, fd)
    THEN LET target == KernelName("linux", tab[fd]) IN
         [ret |-> Len(target), err |-> e, buf |-> target]
    ELSE [ret |-> -1, err |-> ENOENT, buf |-> <<>>]

\* fcntl(fd, F_GETPATH, buf): the path and its terminator, or -1
fcntl_F_GETPATH(tab, fd, b, e) ==
    IF ~IsOpen(tab, fd) THEN [ret |-> -1, err |-> EBADF, buf |-> b]
    ELSE LET name == KernelName("macos", tab[fd]) IN
         IF Len(name) + 1 > MAXPATHLEN
         THEN [ret |-> -1, err |-> ENOSPC, buf |-> b]
         ELSE [ret |-> 0, err |-> e, buf |-> WriteAt(b, name \o <<0>>)]

\* GetFileInformationByHandleEx(h, FileNameInfo, buf, len): FileNameLength
\* and the name without a terminator; FALSE and ERROR_MORE_DATA with a cut
\* name when the buffer is too small
GetFileInformationByHandleEx(tab, h, b, e) ==
    IF ~IsOpen(tab, h) THEN [ret |-> 0, err |-> ERROR_INVALID_HANDLE, buf |-> b]
    ELSE LET name == KernelName("windows", tab[h])
             info == LE32(SizeOfWCHAR * Len(name)) \o UnitsToBytes(name) IN
         IF Len(info) > Len(b)
         THEN [ret |-> 0, err |-> ERROR_MORE_DATA, buf |-> WriteAt(b, info)]
         ELSE [ret |-> 1, err |-> e, buf |-> WriteAt(b, info)]

-----------------------------------------------------------------------------
(* io::Result<PathBuf> *)

NoResult == [kind |-> "None", path |-> <<>>, err |-> 0]

Ok(p) == [kind |-> "Ok", path |-> p, err |-> 0]

\* faulty variant: an error of the crate's own instead of the OS error code
ErrOther(e) == [kind |-> "Err", path |-> <<>>, err |-> 0]

\* io::Error::last_os_error(): the error holds the thread's error code
Err(e) == [kind |-> "Err", path |-> <<>>, err |-> e]

\* the process dies on a fault (a read of unmapped memory)
Fault == [kind |-> "Fault", path |-> <<>>, err |-> 0]

-----------------------------------------------------------------------------
(* The backends.  r, e, b: return value of the query, errno / GetLastError  *)
(* after it, the buffer after it.                                           *)

\* let mut buf = [0; MAXPATHLEN] / [0u8; 4096]; read_link has its own buffer
ScratchLen(be) ==
    IF be = "macos" THEN MAXPATHLEN ELSE IF be = "windows" THEN WinBufLen ELSE 0

\* faulty variant: one buffer shared by all calls, used as the last call left it
ScratchBufShared(be) == buf

ScratchBuf(be) == Zeros(ScratchLen(be))

\* faulty variant: the " (deleted)" ending is cut off
file_name_linux_strip(r, e, b) ==
    IF r = -1 THEN Err(e)
    ELSE IF IsSuffix(DeletedSuffix, b)
         THEN Ok(SubSeq(b, 1, Len(b) - Len(DeletedSuffix))) ELSE Ok(b)

\* Path::read_link: the link's target, or the error of readlink.  The call
\* of read_link is the query of this backend; how the standard library sizes
\* its buffer for readlink(2) is not part of this crate.
file_name_linux(r, e, b) == IF r = -1 THEN Err(e) ELSE Ok(b)

\* faulty variant: the last byte of the buffer is kept for a terminator
position_short(b) ==
    LET Z == {i \in 1..(Len(b) - 1) : b[i] = 0} IN
    IF Z = {} THEN Len(b) - 1 ELSE (CHOOSE i \in Z : \A j \in Z : i <= j) - 1

\* buf.iter().position(|&b| b == 0).unwrap_or(buf.len())
position(b) ==
    LET Z == {i \in 1..Len(b) : b[i] = 0} IN
    IF Z = {} THEN Len(b) ELSE (CHOOSE i \in Z : \A j \in Z : i <= j) - 1

\* faulty variant: the return value of fcntl is not looked at
file_name_macos_unchecked(r, e, b) == Ok(SubSeq(b, 1, position(b)))

file_name_macos(r, e, b) ==
    IF r = -1 THEN Err(e) ELSE Ok(SubSeq(b, 1, position(b)))

\* bytes of the buffer that position() and the slice have looked at
ReadHiMac(r, b) == IF r = -1 THEN 0 ELSE Min(position(b) + 1, Len(b))

\* info.FileNameLength: the DWORD at the start of the buffer
FileNameLength(b) == b[1] + 256 * b[2] + 65536 * b[3] + 16777216 * b[4]

\* (info.FileNameLength as usize) / mem::size_of::<WCHAR>()
FileNameUnits(b) == FileNameLength(b) \div SizeOfWCHAR

\* faulty variant: the slice starts at the buffer, not at the FileName field
WideUnitFromStart(b, k, g) ==
    LET off == SizeOfWCHAR * (k - 1) IN
    IF off + SizeOfWCHAR <= Len(b) THEN b[off + 1] + 256 * b[off + 2] ELSE g

\* slice::from_raw_parts(info.FileName.as_ptr(), n): unit k of the slice; a
\* unit that lies behind the buffer is whatever the stack holds there (g).
\* The loads are little-endian and yield the same value at any address of
\* the buffer on the windows targets (x86, x86_64, aarch64).
WideUnit(b, k, g) ==
    LET off == FileNameOffset + SizeOfWCHAR * (k - 1) IN
    IF off + SizeOfWCHAR <= Len(b) THEN b[off + 1] + 256 * b[off + 2] ELSE g

\* end of the slice, as a byte offset into the buffer
ReadHiWin(r, b) ==
    IF r = 0 THEN 0 ELSE FileNameOffset + SizeOfWCHAR * FileNameUnits(b)

\* g: what a read behind the buffer yields; -1 when it faults
file_name_windows(r, e, b, g) ==
    IF r = 0 THEN Err(e)
    ELSE IF ReadHiWin(r, b) > Len(b) /\ g = -1 THEN Fault
         ELSE Ok([k \in 1..FileNameUnits(b) |-> WideUnit(b, k, g)])

\* the trait method of the backend this build holds
Filename_file_name(be, r, e, b, g) ==
    CASE be = "linux" -> file_name_linux(r, e, b)
      [] be = "macos" -> file_name_macos(r, e, b)
      [] be = "windows" -> file_name_windows(r, e, b, g)

\* pub fn file_name<T>(fd: &T): fd.file_name()
file_name(be, r, e, b, g) == Filename_file_name(be, r, e, b, g)

ReadHi(be, r, b) ==
    CASE be = "linux" -> 0
      [] be = "macos" -> ReadHiMac(r, b)
      [] be = "windows" -> ReadHiWin(r, b)

\* the one OS query of the backend
OSQuery(be, tab, h, b, e) ==
    CASE be = "linux" -> readlink(tab, ProcPath(h), e)
      [] be = "macos" -> fcntl_F_GETPATH(tab, h, b, e)
      [] be = "windows" -> GetFileInformationByHandleEx(tab, h, b, e)

\* the query reported success
QueryOk(be, r) == IF be = "windows" THEN r # 0 ELSE r # -1

\* values a read behind the buffer may yield (-1: the read faults)
Garbage == {-1, 0, 65}

\* faulty variant: the raw handle is wrapped in an owner that closes it when dropped
HandlesAfterOwned(tab, h) ==
    IF h \in DOMAIN tab THEN [tab EXCEPT ![h] = Closed] ELSE tab

\* &self: the handle is borrowed, the caller's table is as before the call
HandlesAfter(tab, h) == tab

\* faulty variant: a failed query is tried again
QueryEnabledRetry(p, be, r) ==
    p = "called" \/ (p = "queried" /\ ~QueryOk(be, r))

\* the query is issued once, after the buffer is set up
QueryEnabled(p, be, r) == p = "called"

-----------------------------------------------------------------------------
(* State *)

NoCall == [h |-> -1, valid |-> FALSE, fresh |-> FALSE, P |-> <<>>,
           unlinked |-> FALSE, ok |-> FALSE, err |-> 0, name |-> <<>>,
           trusted |-> TRUE]

NoPrev == [result |-> NoResult, rep |-> FALSE]

Init ==
    /\ backend \in Backends
    /\ cwdDrive = (IF backend = "windows" THEN 67 ELSE 0)
    /\ open = [h \in Slots |-> Closed]
    /\ pc = "idle"
    /\ arg = -1
    /\ buf = <<>>
    /\ ret = 0
    /\ oserr = 0
    /\ nq = 0
    /\ readHi = 0
    /\ result = NoResult
    /\ prev = NoPrev
    /\ last = NoCall

\* the process runs: no call has faulted
Alive == result.kind # "Fault"

\* the caller has used the path it was given before it goes on to change
\* its files; these operations leave their own error code behind
Forget ==
    /\ arg' = -1
    /\ oserr' = 0
    /\ nq' = 0
    /\ readHi' = 0
    /\ result' = NoResult
    /\ prev' = NoPrev
    /\ last' = NoCall
    /\ UNCHANGED <<backend, cwdDrive, pc, buf, ret>>

-----------------------------------------------------------------------------
(* The caller and the rest of the system, between two calls *)

\* tempfile::NamedTempFile::new(): a new file, on the lowest free handle
Create(h, P) ==
    /\ Alive /\ pc = "idle"
    /\ ~open[h].isopen
    /\ \A k \in Slots : k < h => open[k].isopen
    /\ ~Exists(backend, open, Resolve(backend, cwdDrive, P))
    /\ open' = [open EXCEPT ![h] = NewFile(backend, cwdDrive, P)]
    /\ Forget

\* the NamedTempFile is dropped: the handle is closed, the file removed
Close(h) ==
    /\ Alive /\ pc = "idle"
    /\ open[h].isopen
    /\ open' = [open EXCEPT ![h] = Closed]
    /\ Forget

\* the open file is renamed: the path it was created at names it no longer
Rename(h) ==
    /\ Alive /\ pc = "idle"
    /\ open[h].isopen /\ ~open[h].moved
    /\ LET f == [open[h] EXCEPT !.name = RenameTarget(backend),
                               !.moved = TRUE, !.P = <<>>] IN
       /\ ~Exists(backend, open, FullName(backend, f))
       /\ open' = [open EXCEPT ![h] = f]
    /\ Forget

\* the open file is unlinked
Unlink(h) ==
    /\ Alive /\ pc = "idle"
    /\ open[h].isopen /\ ~open[h].moved
    /\ open' = [open EXCEPT ![h].unlinked = TRUE, ![h].moved = TRUE,
                            ![h].P = <<>>]
    /\ Forget

-----------------------------------------------------------------------------
(* file_name *)

\* entry: the raw handle is taken, the scratch buffer is set up
Call(h) ==
    /\ Alive /\ pc = "idle"
    /\ pc' = "called"
    /\ arg' = h
    /\ buf' = ScratchBuf(backend)
    /\ nq' = 0
    /\ readHi' = 0
    /\ prev' = IF result.kind # "None" /\ arg = h /\ last.trusted
                THEN [result |-> result, rep |-> TRUE] ELSE NoPrev
    /\ result' = NoResult
    /\ last' = NoCall
    /\ UNCHANGED <<backend, cwdDrive, open, ret, oserr>>

\* what the query of the running call meets: the state of its handle and
\* the name the kernel reports for it
Met(ok, e, trusted) ==
    LET v == IsOpen(open, arg)
        f == IF v THEN open[arg] ELSE Closed IN
    [h |-> arg, valid |-> v, fresh |-> v /\ ~f.moved, P |-> f.P,
     unlinked |-> f.unlinked, ok |-> ok, err |-> e,
     name |-> KernelName(backend, f), trusted |-> trusted]

\* the OS query: readlink, fcntl or GetFileInformationByHandleEx
Query ==
    /\ QueryEnabled(pc, backend, ret)
    /\ nq < MaxQueries
    /\ LET q == OSQuery(backend, open, arg, buf, oserr) IN
       /\ ret' = q.ret
       /\ oserr' = q.err
       /\ buf' = q.buf
       /\ last' = Met(QueryOk(backend, q.ret), q.err, TRUE)
    /\ nq' = nq + 1
    /\ pc' = "queried"
    /\ UNCHANGED <<backend, cwdDrive, open, arg, readHi, result, prev>>

\* the result is built from the return value and the buffer, and returned
Return ==
    /\ pc = "queried"
    /\ \E g \in Garbage : result' = file_name(backend, ret, oserr, buf, g)
    /\ readHi' = ReadHi(backend, ret, buf)
    /\ open' = HandlesAfter(open, arg)
    /\ pc' = "idle"
    /\ buf' = <<>>
    /\ ret' = 0
    /\ UNCHANGED <<backend, cwdDrive, arg, oserr, nq, prev, last>>

Next ==
    \/ \E h \in Slots, P \in CreatePaths(backend) : Create(h, P)
    \/ \E h \in Slots : Close(h)
    \/ \E h \in Slots : Rename(h)
    \/ \E h \in Slots : Unlink(h)
    \/ \E h \in HandleVals : Call(h)
    \/ Query
    \/ Return

Spec == Init /\ [][Next]_vars

-----------------------------------------------------------------------------
(* An OS that is not trusted: a query on an open handle that reports       *)
(* success and leaves any of these contents in the buffer                  *)

\* n bytes 'a', a zero byte, then bytes t
MacBytes(n, t) ==
    [i \in 1..MAXPATHLEN |-> IF i <= n THEN 97 ELSE IF i = n + 1 THEN 0 ELSE t]

\* FileNameLength = len, then bytes t
WinBytes(len, t) ==
    [i \in 1..WinBufLen |-> IF i <= FileNameOffset THEN LE32(len)[i] ELSE t]

\* contents whose length field stays within the buffer
UntrustedBufs(be) ==
    IF be = "macos"
    THEN { MacBytes(n, t) :
             n \in {0, 1, MAXPATHLEN - 1 - LongExtra, MAXPATHLEN - 1, MAXPATHLEN},
             t \in {0, 98} }
    ELSE { WinBytes(len, t) :
             len \in {0, 3, WinBufLen - FileNameOffset - SizeOfWCHAR * LongExtra,
                      WinBufLen - FileNameOffset},
             t \in {0, 97} }

\* contents whose length field reaches behind the buffer
OverlongBufs ==
    { WinBytes(len, t) :
        len \in {WinBufLen - FileNameOffset + SizeOfWCHAR * LongExtra, 2 * WinBufLen},
        t \in {0, 97} }

Untrusted(bufs) ==
    /\ QueryEnabled(pc, backend, ret)
    /\ nq < MaxQueries
    /\ IsOpen(open, arg)
    /\ \E c \in bufs : buf' = c
    /\ ret' = (IF backend = "windows" THEN 1 ELSE 0)
    /\ last' = Met(TRUE, oserr, FALSE)
    /\ nq' = nq + 1
    /\ pc' = "queried"
    /\ UNCHANGED <<backend, cwdDrive, open, arg, oserr, readHi, result, prev>>

QueryUntrusted == Untrusted(UntrustedBufs(backend))

QueryOverlong == backend = "windows" /\ Untrusted(OverlongBufs)

\* only the backends with a scratch buffer
InitBuffers == Init /\ backend # "linux"

NextBuffers ==
    \/ \E h \in Slots, P \in CreatePaths(backend) : Create(h, P)
    \/ \E h \in Slots : Close(h)
    \/ \E h \in HandleVals : Call(h)
    \/ Query
    \/ QueryUntrusted
    \/ Return

\* the OS may leave anything in the buffer, within the buffer's length
SpecBuffers == InitBuffers /\ [][NextBuffers]_vars

NextOverlong == NextBuffers \/ QueryOverlong

\* the OS may also report a length the buffer does not hold
SpecOverlong == InitBuffers /\ [][NextOverlong]_vars

-----------------------------------------------------------------------------
(* Properties *)

\* a call has returned and the caller holds its result
Returned == pc = "idle" /\ result.kind # "None"

\* C1: round-trip identity.  A call on the handle of a file that was created
\* at path P, is open and was neither renamed nor unlinked returns Ok, and
\* the canonical form of the returned path is the canonical form of P.
RoundTripIdentity ==
    Returned /\ last.fresh =>
        /\ result.kind = "Ok"
        /\ LET got == canonicalize(backend, cwdDrive, open, result.path)
               want == canonicalize(backend, cwdDrive, open, last.P) IN
           got.ok /\ want.ok /\ got.path = want.path

\* C2: a call on a handle value that is not open returns Err, never Ok.
InvalidHandleIsErr ==
    Returned /\ ~last.valid => result.kind = "Err"

InvalidHandleCalled ==
    Returned /\ ~last.valid /\ last.h \in Slots /\ result.kind = "Err"

\* C3: when the OS query reports failure the call returns Err with exactly
\* the error code of that failure and no path; when it reports success the
\* call returns Ok with the whole name the kernel reported.  Nothing else is
\* returned.
ErrorPassThrough ==
    Returned =>
        IF last.ok
        THEN result.kind = "Ok" /\ result.path = last.name
        ELSE result.kind = "Err" /\ result.err = last.err /\ result.path = <<>>

QueryFailedOnOpenHandle ==
    Returned /\ last.valid /\ ~last.ok /\ result.kind = "Err" /\ last.err # 0

\* C4: windows: the slice that file_name builds ends inside the 4096-byte
\* buffer, whatever FileNameLength the OS has written.
WinSliceInsideBuffer ==
    backend = "windows" => readHi <= WinBufLen

\* C5: no step of a call changes the caller's handles: each handle is open
\* or closed as before and refers to the same file.
HandleOnlyBorrowed ==
    [][(pc # "idle" \/ pc' # "idle") => open' = open]_vars

HandleOpenAfterCall ==
    Returned /\ last.valid /\ IsOpen(open, last.h)

\* C6: a call that follows a call on the same handle, with no change of the
\* handles or the files in between, returns what the first call returned;
\* and each call starts from a scratch buffer of zero bytes of its own.
Repeatable ==
    /\ Returned /\ prev.rep => result = prev.result
    /\ pc = "called" => buf = Zeros(ScratchLen(backend))

RepeatedCall ==
    Returned /\ prev.rep /\ result.kind = "Ok" /\ result.path # <<>>

\* C7: macos: when fcntl does not return -1 the returned path is buf[0..end),
\* end the index of the first zero byte, or 1024 when there is none; no byte
\* outside the buffer is read.
MacResultConstruction ==
    [][backend = "macos" /\ pc = "queried" /\ ret # -1 =>
        /\ result'.kind = "Ok"
        /\ readHi' <= MAXPATHLEN
        /\ LET end == Len(result'.path) IN
           /\ end <= MAXPATHLEN
           /\ result'.path = SubSeq(buf, 1, end)
           /\ \A i \in 1..end : buf[i] # 0
           /\ end < MAXPATHLEN => buf[end + 1] = 0]_vars

MacFullBuffer ==
    backend = "macos" /\ Returned /\ result.kind = "Ok"
    /\ Len(result.path) = MAXPATHLEN

\* C8: linux: the returned path is the target of /proc/self/fd/<fd>, byte
\* for byte; the target of an unlinked file keeps its " (deleted)" ending.
LinuxVerbatim ==
    backend = "linux" /\ Returned /\ last.valid =>
        /\ result = Ok(last.name)
        /\ last.unlinked => IsSuffix(DeletedSuffix, result.path)

LinuxDeletedReturned ==
    backend = "linux" /\ Returned /\ last.unlinked
    /\ IsSuffix(DeletedSuffix, result.path)

\* C9: windows: when the query succeeds the returned path is made of the
\* FileNameLength / 2 UTF-16 units that start at byte 4 of the buffer, with
\* or without a zero unit behind them; FileNameLength = 0 gives Ok with the
\* empty path.  What an honest query wrote is the kernel's name.
WinResultConstruction ==
    [][backend = "windows" /\ pc = "queried" /\ ret # 0 =>
        LET len == buf[1] + 256 * buf[2] + 65536 * buf[3] + 16777216 * buf[4]
            p == result'.path IN
        /\ result'.kind = "Ok"
        /\ Len(p) = len \div 2
        /\ \A k \in 1..Len(p) : p[k] = buf[4 + 2 * k - 1] + 256 * buf[4 + 2 * k]
        /\ len = 0 => result' = Ok(<<>>)
        /\ last.trusted => p = last.name]_vars

WinNoTerminator ==
    backend = "windows" /\ Returned /\ result.kind = "Ok"
    /\ Len(result.path) = WinFit /\ \A k \in 1..WinFit : result.path[k] # 0

\* C10: a call issues one OS query, also when the query fails, and returns
\* once the query has returned: after the query the call can return, and
\* returning is the only step it takes.
OneQueryNoRetry ==
    /\ [](nq <= 1)
    /\ [](Returned => nq = 1)
    /\ [](pc = "queried" => ENABLED Return)
    /\ [][pc = "queried" => pc' = "idle" /\ nq' = nq]_vars

FailedQueryReturned ==
    Returned /\ result.kind = "Err" /\ nq = 1

====
